---- MODULE Spec2Model ----
(***************************************************************************)
(* Model of the CVE history importer:                                      *)
(*   cve_records/management/commands/import_cve_history.py  Command.handle *)
(*   cve_records/models.py           CVEHistory, ImportCheckpoint          *)
(*                                                                         *)
(* The remote feed is a fixed sequence of raw entries plus the total it    *)
(* reports.  The database holds the CVEHistory rows and the one            *)
(* ImportCheckpoint row of the checkpoint name in use.  Every invocation   *)
(* of the command is one run of process p; a run can be killed at any      *)
(* point and the command invoked again.                                    *)
(***************************************************************************)
EXTENDS Integers, Sequences, FiniteSets, TLC

\* ------------------------------------------------------------------ bounds
MaxFeed == 2
MaxPage == 2
MaxBatch == 2
MaxRetries == 2
MaxTries == 3

\* ------------------------------------------------------------------ values
\* Python None for a string-valued field, and for an integer-valued one.
None == "None"
NoInt == <<>>
Some(n) == <<n>>

Min(a, b) == IF a < b THEN a ELSE b

\* Python truthiness of an optional integer (None and 0 are falsy).
Truthy(t) == t # NoInt /\ t # Some(0)

PyOrLatest(a, b) == IF Truthy(b) THEN b ELSE a

\* Python "a or b" on optional integers.
PyOr(a, b) == IF Truthy(a) THEN a ELSE b

\* The importer processes.  Only process 1 runs under Spec.
Procs == {1, 2}

\* ------------------------------------------------------------------ source
\* Raw entries of a page ("cveChanges").  shape tells what the entry is:
\*   "ok"      a mapping whose "change" is a mapping with the given fields
\*   "notmap"  the entry is not a mapping (a string, a number, null)
RawEntries ==
    { [shape |-> "ok", cveChangeId |-> "a", cveId |-> "x"],
      [shape |-> "ok", cveChangeId |-> None, cveId |-> "x"],
      [shape |-> "notmap", cveChangeId |-> None, cveId |-> None] }

RECURSIVE SeqsUpTo(_, _)
SeqsUpTo(S, n) ==
    IF n = 0 THEN { <<>> }
    ELSE LET shorter == SeqsUpTo(S, n - 1)
         IN  shorter \cup { Append(s, e) : s \in { t \in shorter : Len(t) = n - 1 }, e \in S }

Feeds == SeqsUpTo(RawEntries, MaxFeed)

\* What the feed may report as "totalResults": nothing, or a count that is
\* below, equal to or above the number of entries it serves.
Totals == { NoInt } \cup { Some(n) : n \in 0 .. MaxFeed + 1 }

VARIABLES
    feed,       \* the remote feed: the raw entries, by offset (1-based here)
    total,      \* the "totalResults" the feed reports on every page
    db,         \* CVEHistory table: rows in insertion order, xid = 0 once committed
    ck,         \* the persisted ImportCheckpoint row, or NoCheckpoint
    run,        \* per process: the locals of Command.handle and its position
    finished,   \* some run has ended normally
    doneIds,    \* the cveChangeIds stored when the first run ended normally
    stable,     \* every invocation so far used the same options and no reset
    opts        \* the options of those invocations, while stable

vars == <<feed, total, db, ck, run, finished, doneIds, stable, opts>>

NoCheckpoint == [exists |-> FALSE, next_index |-> 0, total |-> NoInt]
Checkpoint(n, t) == [exists |-> TRUE, next_index |-> n, total |-> t]

\* ------------------------------------------------------------------ store
Ids(rows) == { rows[k].cveChangeId : k \in DOMAIN rows }

\* Rows that are committed: what survives the loss of every open transaction.
Durable(rows) == SelectSeq(rows, LAMBDA r : r.xid = 0)

\* Rows a query of process p sees: the committed ones and its own.
Visible(rows, p) == SelectSeq(rows, LAMBDA r : r.xid \in {0, p})

RollbackNone(rows, p) == rows

\* transaction.atomic() left by an exception: the rows of p's transaction go.
Rollback(rows, p) == SelectSeq(rows, LAMBDA r : r.xid # p)

CommitRowsNone(rows, p) == rows

\* transaction.atomic() left normally: the rows of p's transaction are committed.
CommitRows(rows, p) ==
    [k \in DOMAIN rows |-> IF rows[k].xid = p THEN [rows[k] EXCEPT !.xid = 0] ELSE rows[k]]

UniqueViolationOff(rows, new) == FALSE

\* unique=True on cveChangeId: an INSERT of the rows new fails when one of
\* their keys is in the table already or occurs twice among them.
UniqueViolation(rows, new) ==
    \/ \E k \in DOMAIN new : new[k].cveChangeId \in Ids(rows)
    \/ \E j, k \in DOMAIN new : j # k /\ new[j].cveChangeId = new[k].cveChangeId

\* An INSERT of the rows new waits while another open transaction holds one of
\* their keys: the database decides the conflict when that transaction ends.
Blocked(rows, p, new) ==
    \E k \in DOMAIN rows :
        rows[k].xid \notin {0, p} /\ rows[k].cveChangeId \in Ids(new)

\* ------------------------------------------------------------------ paging
\* The page the feed serves for startIndex = s, resultsPerPage = n.
Page(f, s, n) == SubSeq(f, s + 1, Min(s + n, Len(f)))

\* ------------------------------------------------------------------ normalizer
\* hashlib.sha1(json.dumps(change, sort_keys=True)): a digest per payload.
Sha1(change) ==
    CASE change.cveId = "x" -> "sha1_x"
      [] change.cveId = "y" -> "sha1_y"
      [] OTHER -> "sha1_none"

\* rec.get("change", {}) and the change.get(...) calls raise AttributeError
\* when rec is not a mapping.
NormalizeRaises(rec) == rec.shape # "ok"

Normalize(rec) ==
    LET change == [cveChangeId |-> rec.cveChangeId, cveId |-> rec.cveId]
        cve_change_id == IF change.cveChangeId = None THEN Sha1(change)
                         ELSE change.cveChangeId
    IN  [cveId |-> IF change.cveId = None THEN "unknown" ELSE change.cveId,
         cveChangeId |-> cve_change_id]

NormalizePage(records) == [k \in DOMAIN records |-> Normalize(records[k])]

\* ------------------------------------------------------------------ run state
Idle ==
    [pc |-> "Idle", page_size |-> 0, batch_size |-> 0, max_retries |-> 0,
     reset |-> FALSE, checkpoint |-> NoCheckpoint, start |-> 0,
     total_results |-> NoInt, attempt |-> 0, records |-> <<>>,
     objs |-> <<>>, i |-> 0, created |-> 0, err |-> None,
     \* bookkeeping of the run, read by the properties only
     gets |-> 0,            \* GET requests issued for the current page
     fetched_at |-> <<>>,   \* the startIndex of every page requested
     inv_index |-> 0,       \* the persisted next_index when the run was invoked
     rerun |-> FALSE,       \* a run had ended normally before this one began
     db0 |-> <<>>,          \* the table when the current page was requested
     at |-> None,           \* where the run was when it was killed
     reported |-> NoInt,    \* the totalResults of the last response
     slept |-> <<>>]        \* the delays slept between the attempts for the page

Stopped == {"Idle", "Done", "Failed", "Killed"}

NoOpts == [page_size |-> 0, batch_size |-> 0, max_retries |-> 0]

Init ==
    /\ feed \in Feeds
    /\ total \in Totals
    /\ db = <<>>
    /\ ck = NoCheckpoint
    /\ run = [p \in Procs |-> Idle]
    /\ finished = FALSE
    /\ doneIds = {}
    /\ stable = TRUE
    /\ opts = NoOpts

\* ------------------------------------------------------------------ helpers
FirstIndexZero(checkpoint) == 0

\* Line 71: the cursor of the first fetch.
FirstIndex(checkpoint) == checkpoint.next_index

ResetIndexOnly(checkpoint) == [checkpoint EXCEPT !.next_index = 0]

\* Lines 66-69: the checkpoint object after a reset.
ResetCheckpoint(checkpoint) ==
    [checkpoint EXCEPT !.next_index = 0, !.total = NoInt]

LastAttemptLate(attempt, max_retries) == attempt = max_retries

\* Line 83: the attempt that failed was the last one of range(max_retries).
LastAttempt(attempt, max_retries) == attempt = max_retries - 1

\* Line 89: the unit of the delay between two attempts.
BackoffUnit == 5

BackoffFlat(attempt) == BackoffUnit

\* Line 89: time.sleep(5 * (attempt + 1)).
Backoff(attempt) == BackoffUnit * (attempt + 1)

SavedAtFetchAdvancing(checkpoint, total_results, records) ==
    [checkpoint EXCEPT !.next_index = @ + Len(records),
                       !.total = IF Truthy(total_results) /\ ~Truthy(@)
                                 THEN total_results ELSE @]

\* Lines 93-95: the checkpoint object after a page was fetched: the total is
\* set when it is learned; next_index is not touched here.
SavedAtFetch(checkpoint, total_results, records) ==
    IF Truthy(total_results) /\ ~Truthy(checkpoint.total)
    THEN [checkpoint EXCEPT !.total = total_results]
    ELSE checkpoint

EndOfStreamNever(records) == FALSE

\* Line 98: "if not records".
EndOfStream(records) == records = <<>>

ReachedTotalStrict(total_results, start) ==
    total_results # NoInt /\ start > total_results[1]

\* Line 175: isinstance(total_results, int) and start >= total_results.
ReachedTotal(total_results, start) ==
    total_results # NoInt /\ start >= total_results[1]

NextIndexBack(start, records, created) == start - Len(records)

NextIndexInserted(start, records, created) == start + created

NextIndexStay(start, records, created) == start

\* Line 165: start += len(records).
NextIndex(start, records, created) == start + Len(records)

\* Line 144: the chunk of the page that starts at index i.
Chunk(objs, i, batch_size) == SubSeq(objs, i + 1, Min(i + batch_size, Len(objs)))

ToCreateAll(rows, p, chunk) == chunk

\* Lines 145-154: the objects of the chunk whose cveChangeId no row has yet.
ToCreate(rows, p, chunk) ==
    LET existing == Ids(Visible(rows, p)) \cap Ids(chunk)
    IN  SelectSeq(chunk, LAMBDA o : o.cveChangeId \notin existing)

\* The rows bulk_create inserts for the objects, inside p's transaction.
Rows(objs, p) ==
    [k \in DOMAIN objs |-> [cveChangeId |-> objs[k].cveChangeId,
                            cveId |-> objs[k].cveId, xid |-> p]]

WrittenUpsert(rows, p, chunk) ==
    LET last(id) == CHOOSE k \in DOMAIN chunk :
                        /\ chunk[k].cveChangeId = id
                        /\ \A j \in DOMAIN chunk :
                               chunk[j].cveChangeId = id => j <= k
    IN  [k \in DOMAIN rows |->
            IF rows[k].cveChangeId \in Ids(chunk) /\ rows[k].xid \in {0, p}
            THEN [rows[k] EXCEPT !.cveId = chunk[last(rows[k].cveChangeId)].cveId]
            ELSE rows[k]] \o Rows(ToCreate(rows, p, chunk), p)

\* Lines 145-157: the table after the chunk: the rows it had, untouched, and
\* then the rows inserted for the objects of the chunk that are to be created.
Written(rows, p, chunk) == rows \o Rows(ToCreate(rows, p, chunk), p)

\* The run ends normally (line 181).
Finish(r) == [r EXCEPT !.pc = "Done"]

\* The run ends with the exception e leaving handle().
Raise(r, e) == [r EXCEPT !.pc = "Failed", !.err = e]

\* ------------------------------------------------------------------ actions
\* handle(), lines 54-76: read the options, get or create the checkpoint,
\* reset it when asked, and set the cursor for the first fetch.
Start(p, reset, ps, bs, mr) ==
    /\ run[p].pc = "Idle"
    /\ LET loaded == IF ck.exists THEN ck ELSE Checkpoint(0, NoInt)
           mem == IF reset THEN ResetCheckpoint(loaded) ELSE loaded
           given == [page_size |-> ps, batch_size |-> bs, max_retries |-> mr]
           same == stable /\ ~reset /\ opts \in {NoOpts, given}
       IN  /\ ck' = mem
           /\ run' = [run EXCEPT ![p] =
                  [Idle EXCEPT !.pc = "Fetch", !.page_size = ps, !.batch_size = bs,
                               !.max_retries = mr, !.reset = reset,
                               !.checkpoint = mem, !.start = FirstIndex(mem),
                               !.total_results = mem.total,
                               !.fetched_at = <<FirstIndex(mem)>>,
                               !.inv_index = IF reset \/ ~ck.exists THEN 0
                                             ELSE ck.next_index,
                               !.rerun = finished,
                               !.db0 = db]]
           /\ stable' = same
           /\ opts' = IF same THEN given ELSE NoOpts
    /\ UNCHANGED <<feed, total, db, finished, doneIds>>

NoteDone ==
    /\ finished' = TRUE
    /\ doneIds' = IF finished THEN doneIds ELSE Ids(Durable(db'))

\* Lines 79-81 and 91-142: the GET succeeds with the page records and the
\* total t; the total is learned and saved; an empty page ends the run; the
\* entries are normalized and the page's transaction is entered.
Fetched(p, t, records) ==
    LET r == run[p]
        total_results == PyOr(r.total_results, t)
        mem == SavedAtFetch(r.checkpoint, total_results, records)
        r1 == [r EXCEPT !.gets = @ + 1, !.total_results = total_results,
                        !.checkpoint = mem, !.records = records,
                        !.reported = t]
    IN  /\ r.pc = "Fetch"
        /\ ck' = IF mem # r.checkpoint THEN mem ELSE ck
        /\ db' = db
        /\ IF EndOfStream(records)
           THEN /\ run' = [run EXCEPT ![p] = Finish(r1)]
                /\ NoteDone
           ELSE /\ UNCHANGED <<finished, doneIds>>
                /\ IF \E k \in DOMAIN records : NormalizeRaises(records[k])
                   THEN run' = [run EXCEPT ![p] = Raise(r1, "AttributeError")]
                   ELSE run' = [run EXCEPT ![p] =
                            [r1 EXCEPT !.pc = "Write", !.i = 0, !.created = 0,
                                       !.objs = NormalizePage(records)]]
        /\ UNCHANGED <<feed, total, stable, opts>>

\* The GET succeeds against the feed: it serves the page at the cursor.
FetchOK(p, t) == Fetched(p, t, Page(feed, run[p].start, run[p].page_size))

\* Lines 79-89: the GET fails; the last attempt re-raises, an earlier one
\* sleeps and tries again.
FetchFail(p) ==
    LET r == run[p]
        r1 == [r EXCEPT !.gets = @ + 1]
    IN  /\ r.pc = "Fetch"
        /\ r.attempt < r.max_retries
        /\ IF LastAttempt(r.attempt, r.max_retries)
           THEN run' = [run EXCEPT ![p] = Raise(r1, "FetchExhausted")]
           ELSE run' = [run EXCEPT ![p] =
                       [r1 EXCEPT !.attempt = @ + 1,
                                  !.slept = Append(@, Backoff(r.attempt))]]
        /\ UNCHANGED <<feed, total, db, ck, finished, doneIds, stable, opts>>

\* Lines 143-157: one chunk of the page inside the transaction; bulk_create
\* raises IntegrityError when the unique key is violated (lines 159-163).
WriteChunk(p) ==
    LET r == run[p]
        to_create == ToCreate(db, p, Chunk(r.objs, r.i, r.batch_size))
    IN  /\ r.pc = "Write"
        /\ r.i < Len(r.objs)
        /\ ~Blocked(db, p, to_create)
        /\ IF to_create # <<>> /\ UniqueViolation(db, to_create)
           THEN /\ db' = Rollback(db, p)
                /\ run' = [run EXCEPT ![p] = Raise(r, "IntegrityError")]
           ELSE /\ db' = Written(db, p, Chunk(r.objs, r.i, r.batch_size))
                /\ run' = [run EXCEPT ![p] =
                       [r EXCEPT !.i = @ + r.batch_size,
                                 !.created = @ + Len(to_create)]]
        /\ UNCHANGED <<feed, total, ck, finished, doneIds, stable, opts>>

\* Lines 156 and 159-163: bulk_create fails for a reason of the database's
\* own (connection lost, disk full); the transaction rolls back.
WriteError(p) ==
    LET r == run[p]
    IN  /\ r.pc = "Write"
        /\ r.i < Len(r.objs)
        /\ ToCreate(db, p, Chunk(r.objs, r.i, r.batch_size)) # <<>>
        /\ db' = Rollback(db, p)
        /\ run' = [run EXCEPT ![p] = Raise(r, "DatabaseError")]
        /\ UNCHANGED <<feed, total, ck, finished, doneIds, stable, opts>>

\* Line 142, leaving the with block after the last chunk: commit.
Commit(p) ==
    LET r == run[p]
    IN  /\ r.pc = "Write"
        /\ r.i >= Len(r.objs)
        /\ db' = CommitRows(db, p)
        /\ run' = [run EXCEPT ![p] = [r EXCEPT !.pc = "Save"]]
        /\ UNCHANGED <<feed, total, ck, finished, doneIds, stable, opts>>

\* Lines 165-167: advance the cursor by the entries fetched and save it.
Save(p) ==
    LET r == run[p]
        start == NextIndex(r.start, r.records, r.created)
        mem == [r.checkpoint EXCEPT !.next_index = start]
    IN  /\ r.pc = "Save"
        /\ ck' = mem
        /\ run' = [run EXCEPT ![p] =
               [r EXCEPT !.pc = "Check", !.start = start, !.checkpoint = mem]]
        /\ UNCHANGED <<feed, total, db, finished, doneIds, stable, opts>>

\* Lines 175-179 and 74-76: stop at the known total, else go for the next page.
Check(p) ==
    LET r == run[p]
    IN  /\ r.pc = "Check"
        /\ db' = db
        /\ IF ReachedTotal(r.total_results, r.start)
           THEN /\ run' = [run EXCEPT ![p] = Finish(r)]
                /\ NoteDone
           ELSE /\ run' = [run EXCEPT ![p] =
                       [r EXCEPT !.pc = "Fetch", !.attempt = 0, !.gets = 0,
                                 !.slept = <<>>,
                                 !.fetched_at = Append(@, r.start),
                                 !.db0 = db]]
                /\ UNCHANGED <<finished, doneIds>>
        /\ UNCHANGED <<feed, total, ck, stable, opts>>

\* The process is killed while it runs; the database rolls back its open
\* transaction.
Interrupt(p) ==
    LET r == run[p]
    IN  /\ r.pc \notin Stopped
        /\ db' = Rollback(db, p)
        /\ run' = [run EXCEPT ![p] = [r EXCEPT !.pc = "Killed", !.at = r.pc]]
        /\ UNCHANGED <<feed, total, ck, finished, doneIds, stable, opts>>

\* handle() has returned or raised, or the process was killed: the process is
\* gone and so are its locals.
Exit(p) ==
    /\ run[p].pc \in {"Done", "Failed", "Killed"}
    /\ run' = [run EXCEPT ![p] = Idle]
    /\ UNCHANGED <<feed, total, db, ck, finished, doneIds, stable, opts>>

Step(p) ==
    \/ \E reset \in BOOLEAN, ps \in 1 .. MaxPage, bs \in 1 .. MaxBatch,
          mr \in 1 .. MaxRetries : Start(p, reset, ps, bs, mr)
    \/ FetchOK(p, total)
    \/ FetchFail(p)
    \/ WriteChunk(p)
    \/ WriteError(p)
    \/ Commit(p)
    \/ Save(p)
    \/ Check(p)
    \/ Interrupt(p)
    \/ Exit(p)

Next == Step(1)

Spec == Init /\ [][Next]_vars

\* ------------------------------------------------------------------ properties
\* The record stored for the feed entry at 1-based position k.
IdAt(k) == Normalize(feed[k]).cveChangeId

\* The cveChangeIds of the first n entries of the feed.
FeedIds(n) == { IdAt(k) : k \in 1 .. n }

\* The total the feed reports does not understate the entries it serves.
TotalCoversFeed == total = NoInt \/ total[1] >= Len(feed)

\* C1: the persisted checkpoint is never ahead of what is durably written:
\* every feed entry at an offset below the persisted next_index is an entry
\* that normalizes, and its cveChangeId is in a committed row.
C1_CheckpointBehindStore ==
    /\ ck.next_index <= Len(feed)
    /\ \A k \in 1 .. Len(feed) :
          k <= ck.next_index =>
              /\ ~NormalizeRaises(feed[k])
              /\ IdAt(k) \in Ids(Durable(db))

\* C1 witness: a run that resumed from next_index = 1 has advanced the
\* checkpoint to 2.
C1_Witness ==
    /\ run[1].pc = "Check"
    /\ ~run[1].reset
    /\ run[1].inv_index = 1
    /\ ck.next_index = 2

\* C2 (as stated): once a run has ended normally, a later run of the same
\* command line that ends normally leaves the set of stored cveChangeIds as it
\* was when the first one ended; and no two rows share a cveChangeId.
C2_Original ==
    /\ Cardinality(Ids(db)) = Len(db)
    /\ (run[1].pc = "Done" /\ run[1].rerun /\ stable) =>
           Ids(Durable(db)) = doneIds

\* C2 (amended): when the total the feed reports is not below the number of
\* entries it serves, the stored cveChangeIds never change after the first
\* run that ended normally, whatever runs follow (reset or not, killed or
\* not); and in every state no two rows share a cveChangeId.
C2_Idempotent ==
    /\ Cardinality(Ids(db)) = Len(db)
    /\ (finished /\ TotalCoversFeed) => Ids(Durable(db)) = doneIds

\* C2 witness: a second run, with the reset flag, has re-read a non-empty
\* feed from offset 0 and ended normally.
C2_Witness ==
    /\ run[1].pc = "Done"
    /\ run[1].rerun
    /\ run[1].reset
    /\ TotalCoversFeed
    /\ Len(db) = 2
    /\ ck.next_index = 2

\* The next_index at which a run that starts at cursor s and is neither
\* killed nor failed ends (lines 74-177 followed from s).
RECURSIVE CleanRun(_, _, _, _)
CleanRun(f, t, n, s) ==
    LET records == Page(f, s, n)
        next == s + Len(records)
    IN  IF EndOfStream(records) THEN s
        ELSE IF ReachedTotal(t, next) THEN next
        ELSE CleanRun(f, t, n, next)

\* A kill inside the page's transaction left the persisted next_index at the
\* cursor of that page and the table as it was before the page.
KilledInTransaction ==
    (run[1].pc = "Killed" /\ run[1].at = "Write") =>
        /\ ck.next_index = run[1].start
        /\ db = run[1].db0

\* C3 (as stated): the first run to end normally, after any number of runs of
\* the same command line (no reset) that were killed or failed, ends with the
\* next_index and the stored cveChangeIds of a run from offset 0 that was never
\* interrupted; and a kill inside the transaction leaves next_index as it was.
C3_Original ==
    /\ KilledInTransaction
    /\ (run[1].pc = "Done" /\ ~run[1].rerun /\ stable) =>
           LET n == CleanRun(feed, total, run[1].page_size, 0)
           IN  /\ ck.next_index = n
               /\ Ids(Durable(db)) = FeedIds(n)

\* C3 (amended): the same, for a feed whose reported total is not below the
\* number of entries it serves.
C3_ResumeEqualsCleanRun ==
    /\ KilledInTransaction
    /\ (run[1].pc = "Done" /\ ~run[1].rerun /\ TotalCoversFeed) =>
           LET n == CleanRun(feed, total, run[1].page_size, 0)
           IN  /\ ck.next_index = n
               /\ Ids(Durable(db)) = FeedIds(n)

\* C3 witness: a run that resumed from a checkpoint left at 1 by a run that
\* did not end normally has ended normally, with the same command line.
C3_Witness ==
    /\ run[1].pc = "Done"
    /\ ~run[1].rerun
    /\ stable
    /\ TotalCoversFeed
    /\ run[1].inv_index = 1
    /\ ck.next_index = 2
    /\ Len(db) = 2

\* C4: a run started without the reset flag requests its first page at the
\* next_index that was persisted when it was invoked (0 when there was no
\* checkpoint); and when the chunks of a page are written, no object whose
\* cveChangeId was stored before the page was requested has been inserted.
C4_ResumesAtCheckpoint ==
    /\ (run[1].pc # "Idle" /\ ~run[1].reset) =>
           run[1].fetched_at[1] = run[1].inv_index
    /\ (run[1].pc = "Write") =>
           Ids(SelectSeq(db, LAMBDA row : row.xid = 1)) \cap Ids(run[1].db0) = {}

\* C4 witness: a run resumed at next_index = 1 with page size 2 against a feed
\* whose entry at offset 0 and at offset 1 have the same cveChangeId: the
\* re-sent entry was skipped, nothing was inserted.
C4_Witness ==
    /\ run[1].pc = "Write"
    /\ ~run[1].reset
    /\ run[1].inv_index = 1
    /\ run[1].fetched_at = <<1>>
    /\ run[1].i >= Len(run[1].objs)
    /\ run[1].created = 0
    /\ Len(db) = 1
\* C5: a page is requested at most max_retries times and a further request
\* is made only after fewer than max_retries failures; a run fails with
\* FetchExhausted after exactly max_retries requests for the page, with the
\* table and the persisted checkpoint as they were when the page was first
\* requested; a request that succeeds after max_retries - 1 failures is
\* handled like any other (the run does not fail with FetchExhausted).
C5_RetryBound ==
    LET r == run[1]
    IN  /\ r.gets <= r.max_retries
        /\ r.pc = "Fetch" => r.gets = r.attempt /\ r.attempt < r.max_retries
        /\ (r.pc = "Failed" /\ r.err = "FetchExhausted") =>
               /\ r.gets = r.max_retries
               /\ db = r.db0
               /\ ck = r.checkpoint
               /\ ck.next_index = r.start
               /\ r.fetched_at[Len(r.fetched_at)] = r.start
        /\ (r.pc \in {"Write", "Save", "Check"}) =>
               r.gets = r.attempt + 1 /\ r.err = None

\* C5 witness: with max_retries = 2 the first request of a page failed, the
\* second succeeded, the page was written and the checkpoint advanced.
C5_Witness ==
    /\ run[1].pc = "Check"
    /\ run[1].max_retries = 2
    /\ run[1].gets = 2
    /\ run[1].created = 1
    /\ ck.next_index = run[1].inv_index + 1

Ceil(a, b) == (a + b - 1) \div b

\* C6: against a feed that serves T >= 1 entries and reports total T, a run
\* that starts at offset 0 and ends normally has requested exactly
\* ceil(T / page_size) pages and leaves next_index = T.
C6_StopsAtTotal ==
    LET r == run[1]
        T == Len(feed)
    IN  (r.pc = "Done" /\ r.fetched_at[1] = 0 /\ T >= 1 /\ total = Some(T)) =>
            /\ Len(r.fetched_at) = Ceil(T, r.page_size)
            /\ ck.next_index = T

\* C6 witness: T = 2 entries in pages of 1: two pages, next_index = 2.
C6_Witness ==
    /\ run[1].pc = "Done"
    /\ total = Some(Len(feed))
    /\ Len(feed) = 2
    /\ run[1].page_size = 1
    /\ run[1].fetched_at = <<0, 1>>
    /\ ck.next_index = 2

\* C7: a page with no entries ends the run normally at any cursor: the run
\* never enters the write, the save or the total test with an empty page, it
\* does not fail on one, and it ends with the persisted next_index at the
\* cursor of that page and no row added.
C7_EmptyPageEnds ==
    LET r == run[1]
    IN  /\ r.pc \in {"Write", "Save", "Check"} => r.records # <<>>
        /\ (r.pc = "Failed" /\ r.err # "FetchExhausted") => r.records # <<>>
        /\ (r.pc = "Done" /\ r.records = <<>>) =>
               /\ ck.next_index = r.start
               /\ db = r.db0
               /\ r.err = None

\* C7 witness: the page at cursor 1 is empty although the known total is 2.
C7_Witness ==
    /\ run[1].pc = "Done"
    /\ run[1].records = <<>>
    /\ run[1].start = 1
    /\ run[1].total_results = Some(2)
    /\ ck.next_index = 1

Distinct(objs) == Cardinality(Ids(objs)) = Len(objs)

\* The objects of the page whose cveChangeId was stored before the page.
Known(r) == { k \in DOMAIN r.objs : r.objs[k].cveChangeId \in Ids(r.db0) }

\* C8: for a page of N objects with pairwise distinct cveChangeIds of which M
\* were stored before, and any batch size: when the last chunk is written,
\* N - M rows have been inserted, created = N - M, the rows stored before are
\* in place, and the write does not fail on the unique key.
C8_BatchDedupCount ==
    LET r == run[1]
        N == Len(r.objs)
        M == Cardinality(Known(r))
    IN  /\ (r.pc = "Write" /\ r.i >= N /\ Distinct(r.objs)) =>
               /\ Len(db) = Len(r.db0) + N - M
               /\ r.created = N - M
               /\ SubSeq(db, 1, Len(r.db0)) = r.db0
               /\ Ids(r.objs) \subseteq Ids(db)
        /\ (r.pc = "Failed" /\ r.err = "IntegrityError") => ~Distinct(r.objs)

\* C8 witness: a page of 2 distinct objects, 1 of them stored before: 1 row
\* inserted.
C8_Witness ==
    /\ run[1].pc = "Write"
    /\ run[1].i >= 2
    /\ Len(run[1].objs) = 2
    /\ Distinct(run[1].objs)
    /\ Cardinality(Known(run[1])) = 1
    /\ run[1].created = 1

\* C9 (as stated): a page in which a cveChangeId occurs more than once is
\* written without a failure: no run fails on the unique key.
C9_DuplicatesNeverFail ==
    ~(run[1].pc = "Failed" /\ run[1].err = "IntegrityError")

C11_NextIndexNeverLowered ==
    /\ [](ck.next_index >= 0)
    /\ [][run[1].pc # "Idle" => ck'.next_index >= ck.next_index]_vars

\* C11 witness: the first page advanced the checkpoint and the write of the
\* second page failed.
C11_Witness ==
    /\ run[1].pc = "Failed"
    /\ run[1].err = "DatabaseError"
    /\ Len(run[1].fetched_at) = 2
    /\ run[1].inv_index = 0
    /\ ck.next_index = 1

\* A source whose reported total drifts: every response carries any total.
InitDrift == Init /\ total = NoInt

StepDrift(p) ==
    \/ \E reset \in BOOLEAN, ps \in 1 .. MaxPage : Start(p, reset, ps, 1, 1)
    \/ \E t \in Totals : FetchOK(p, t)
    \/ FetchFail(p)
    \/ WriteChunk(p)
    \/ WriteError(p)
    \/ Commit(p)
    \/ Save(p)
    \/ Check(p)
    \/ Interrupt(p)
    \/ Exit(p)

NextDrift == StepDrift(1)

SpecDrift == InitDrift /\ [][NextDrift]_vars

\* C12: without an explicit reset, a persisted total that holds an integer is
\* never replaced, whatever total later pages of this or a later run report,
\* and the total the run tests for termination is that persisted value.
C12_TotalKept ==
    /\ []((run[1].pc # "Idle" /\ ck.total # NoInt) =>
             run[1].total_results = ck.total)
    /\ [][(ck.total # NoInt /\ ~(run[1].pc = "Idle" /\ run'[1].reset)) =>
             ck'.total = ck.total]_vars

\* C12 witness: the second page of a run reported another total than the one
\* persisted, and the termination test is about to use the persisted one.
C12_Witness ==
    /\ run[1].pc = "Check"
    /\ Len(run[1].fetched_at) = 2
    /\ ck.total = Some(3)
    /\ run[1].reported = Some(1)
    /\ run[1].total_results = Some(3)

\* C13: a malformed raw entry never aborts the page or the run: a run ends
\* Failed only on an exhausted fetch or on a failed write.
C13_MalformedNeverAborts ==
    run[1].pc = "Failed" =>
        run[1].err \in {"FetchExhausted", "IntegrityError", "DatabaseError"}

\* C14: two entries that supply no change identity and carry the same payload
\* get the same fallback identity, and the later one is skipped as a
\* duplicate: a page that holds both does not fail on the unique key.
C14_FallbackDuplicateSkipped ==
    LET r == run[1]
    IN  (\E j, k \in DOMAIN r.records :
            /\ j < k
            /\ r.records[j] = r.records[k]
            /\ ~NormalizeRaises(r.records[j])
            /\ r.records[j].cveChangeId = None
            /\ Sha1(r.records[j]) = Sha1(r.records[k]))
        => ~(r.pc = "Failed" /\ r.err = "IntegrityError")

\* Entries that carry one change identity with two contents.
ContentEntries ==
    { [shape |-> "ok", cveChangeId |-> "a", cveId |-> "x"],
      [shape |-> "ok", cveChangeId |-> "a", cveId |-> "y"] }

InitContent ==
    /\ feed \in SeqsUpTo(ContentEntries, MaxFeed)
    /\ total \in Totals
    /\ db = <<>>
    /\ ck = NoCheckpoint
    /\ run = [p \in Procs |-> Idle]
    /\ finished = FALSE
    /\ doneIds = {}
    /\ stable = TRUE
    /\ opts = NoOpts

SpecContent == InitContent /\ [][Next]_vars

\* C15: across runs, restarts and resets every step leaves the committed
\* records in place with their fields as they were, and only adds records
\* after them: no record is updated or deleted, also when a fetched entry
\* carries a stored change identity with other content.
C15_StoredRecordsKept ==
    [][LET before == Durable(db)
           after == Durable(db')
       IN  /\ Len(after) >= Len(before)
           /\ SubSeq(after, 1, Len(before)) = before]_vars

\* C15 witness: a page whose entry carries a stored change identity with other
\* content was written and committed; the stored record is as it was.
C15_Witness ==
    /\ run[1].pc = "Save"
    /\ run[1].objs = <<[cveChangeId |-> "a", cveId |-> "y"]>>
    /\ run[1].created = 0
    /\ db = <<[cveChangeId |-> "a", cveId |-> "x", xid |-> 0]>>

\* C16: after a page has been written, the persisted next_index is the cursor
\* its fetch used plus the number of raw entries of the page, however many of
\* them were inserted, and the next fetch uses that value as its startIndex.
C16_AdvancesByFetchedCount ==
    LET r == run[1]
        n == Len(r.fetched_at)
    IN  /\ (r.pc = "Check" \/ (r.pc = "Done" /\ r.records # <<>>)) =>
               /\ ck.next_index = r.fetched_at[n] + Len(r.records)
               /\ r.start = ck.next_index
        /\ (r.pc = "Fetch" /\ n >= 2) =>
               /\ ck.next_index = r.fetched_at[n - 1] + Len(r.records)
               /\ r.fetched_at[n] = ck.next_index
               /\ r.start = ck.next_index

\* C16 witness: the second page of a run held one entry, inserted nothing, and
\* the checkpoint advanced by one.
C16_Witness ==
    /\ run[1].pc = "Check"
    /\ Len(run[1].fetched_at) = 2
    /\ Len(run[1].records) = 1
    /\ run[1].created = 0
    /\ ck.next_index = 2

\* C17: a run started with the reset flag persists next_index 0 and no total
\* before its first fetch, whatever the checkpoint held, and removes no stored
\* record; its first fetch uses startIndex 0; the total is learned afresh from
\* the first response; and a page whose identities are all stored already
\* inserts no row.
C17_ResetRestartsFromZero ==
    LET r == run[1]
    IN  (r.reset /\ r.pc # "Idle") =>
            /\ r.fetched_at[1] = 0
            /\ (r.pc = "Fetch" /\ Len(r.fetched_at) = 1) =>
                   /\ ck = Checkpoint(0, NoInt)
                   /\ r.start = 0
                   /\ r.total_results = NoInt
                   /\ db = r.db0
            /\ (r.pc \in {"Write", "Save", "Check"} /\ Len(r.fetched_at) = 1) =>
                   /\ r.total_results = r.reported
                   /\ ck.total = IF Truthy(r.reported) THEN r.reported ELSE NoInt
            /\ (r.pc \in {"Save", "Check"} /\ Ids(r.objs) \subseteq Ids(r.db0)) =>
                   /\ r.created = 0
                   /\ Durable(db) = r.db0

\* C17 witness: a reset run over a table that held two records fetched them
\* again from index 0, inserted nothing, and learned the total anew.
C17_Witness ==
    /\ run[1].reset
    /\ run[1].pc = "Check"
    /\ Len(run[1].fetched_at) = 1
    /\ Len(run[1].db0) = 2
    /\ Len(run[1].objs) = 2
    /\ run[1].created = 0
    /\ ck = Checkpoint(2, Some(3))

\* Two instances of the command run with the same checkpoint name against a
\* feed that reports no total.
InitRace == Init /\ total = NoInt

StepRace(p) ==
    \/ \E ps \in 1 .. MaxPage : Start(p, FALSE, ps, 1, 1)
    \/ FetchOK(p, total)
    \/ FetchFail(p)
    \/ WriteChunk(p)
    \/ WriteError(p)
    \/ Commit(p)
    \/ Save(p)
    \/ Check(p)
    \/ Exit(p)

NextRace == \E p \in Procs : StepRace(p)

SpecRace == InitRace /\ [][NextRace]_vars

\* C18: with two instances on one checkpoint name the persisted next_index can
\* decrease, and only by a lost update: a step of a running instance lowers
\* it only when another writer has changed the checkpoint since the instance
\* last read or saved it, so that its in-memory copy is stale.
C18_LoweredOnlyByStaleWriter ==
    [][\A p \in Procs :
          (run'[p] # run[p] /\ run[p].pc # "Idle"
               /\ ck'.next_index < ck.next_index)
          => run[p].checkpoint.next_index # ck.next_index]_vars

\* C18 witness: both instances started from index 0; instance 2 saved
\* next_index 2, and then instance 1 saved next_index 1 over it.
C18_Witness ==
    /\ run[1].pc = "Check"
    /\ run[1].inv_index = 0
    /\ run[1].checkpoint.next_index = 1
    /\ run[2].pc \in {"Check", "Fetch", "Done"}
    /\ run[2].inv_index = 0
    /\ run[2].checkpoint.next_index = 2
    /\ ck.next_index = 1

\* Runs that may be given one more --max-retries than MaxRetries, so that a
\* page can see two delays, against a feed that reports no total.
InitBackoff == Init /\ total = NoInt

StepBackoff(p) ==
    \/ \E ps \in 1 .. MaxPage, mr \in 1 .. MaxTries :
          Start(p, FALSE, ps, 1, mr)
    \/ FetchOK(p, total)
    \/ FetchFail(p)
    \/ WriteChunk(p)
    \/ WriteError(p)
    \/ Commit(p)
    \/ Save(p)
    \/ Check(p)
    \/ Interrupt(p)
    \/ Exit(p)

NextBackoff == StepBackoff(1)

SpecBackoff == InitBackoff /\ [][NextBackoff]_vars

RECURSIVE Sum(_)
Sum(s) == IF s = <<>> THEN 0 ELSE s[1] + Sum(Tail(s))

PageEndless(f, s, n) ==
    IF f = <<>> THEN <<>>
    ELSE [k \in 1 .. n |-> f[((s + k - 1) % Len(f)) + 1]]

\* The GET succeeds against the endless source. The cursor is capped; the cap
\* is out of reach of a run that knows a total within Totals.
FetchEndless(p, t) ==
    /\ run[p].start <= MaxFeed + MaxPage
    /\ Fetched(p, t, PageEndless(feed, run[p].start, run[p].page_size))

\* One run that is left to run: it is not killed, and it takes its next step
\* as long as it has one.
NextLive ==
    \/ \E reset \in BOOLEAN, ps \in 1 .. MaxPage, bs \in 1 .. MaxBatch,
          mr \in 1 .. MaxRetries : Start(1, reset, ps, bs, mr)
    \/ FetchOK(1, total)
    \/ FetchEndless(1, total)
    \/ FetchFail(1)
    \/ WriteChunk(1)
    \/ WriteError(1)
    \/ Commit(1)
    \/ Save(1)
    \/ Check(1)

SpecLive == Init /\ [][NextLive]_vars /\ WF_vars(NextLive)

\* C20: when the source reports an integer total of at least 1, the run ends
\* Done or Failed; every written page moves the cursor strictly forward; and a
\* run that never learned a total ends Done only on an empty page.
C20_RunEnds ==
    /\ (total # NoInt /\ total[1] >= 1) => <>(run[1].pc \in {"Done", "Failed"})
    /\ [][(run[1].pc = "Save" /\ run'[1].pc = "Check") =>
             run'[1].start > run[1].start]_vars
    /\ []((run[1].pc = "Done" /\ run[1].total_results = NoInt) =>
             run[1].records = <<>>)

\* C20 witness: over a source that never runs out of entries and reports a
\* total of 3, the run ended Done after a non-empty page, at cursor 3.
C20_Witness ==
    /\ run[1].pc = "Done"
    /\ Len(feed) = 1
    /\ total = Some(3)
    /\ run[1].records # <<>>
    /\ run[1].start = 3
====
